---- MODULE Spec2Model ----
(***************************************************************************)
(* Model of src/src/request.rs: RequestParser, the incremental parser of   *)
(* an HTTP/1.x request head.                                               *)
(*                                                                         *)
(* Bytes are the integers 0..255.  A &str is the byte sequence that        *)
(* str::from_utf8 has validated; the text operations of the standard       *)
(* library (lines, split_whitespace, trim, to_lowercase, split, ...) work  *)
(* on its chars, i.e. on the sequence of Unicode code points it decodes to.*)
(***************************************************************************)
EXTENDS Integers, Sequences, FiniteSets, TLC

VARIABLES
    buffer,           \* RequestParser.buffer: the bytes stored so far; every
                      \* byte past Len(buffer) still holds the 0 of new()
    buffer_position,  \* RequestParser.buffer_position
    stream,           \* the byte source: [data, index, short_reads], the first
                      \* index bytes of data consumed
    result,           \* what the latest read_stream call returned
    prev_position,    \* buffer_position when the latest call started
    pulls,            \* number of read_stream calls made so far
    call              \* a direct call of parse / parse_version: [fn, input, output]

vars == <<buffer, buffer_position, stream, result, prev_position, pulls, call>>

(***************************************************************************)
(* Program constants and model bounds.                                     *)
(***************************************************************************)
BUFFER_SIZE == 8192

U8_MAX == 255

MaxPulls == 4

MaxRead == 16

MaxHeaderLines == 2

Min(a, b) == IF a < b THEN a ELSE b

Max(a, b) == IF a < b THEN b ELSE a

(***************************************************************************)
(* Characters the parser looks for.                                        *)
(***************************************************************************)
LF == 10

CR == 13

COLON == 58

SLASH == 47

DOT == 46

PLUS == 43

(***************************************************************************)
(* str::from_utf8: a check of the bytes, which are then used as they are.  *)
(***************************************************************************)
IsContinuation(b) == b \in 128..191

\* Length in bytes of the character a lead byte announces; 0: not a lead byte.
Utf8Width(b) ==
    IF b < 128 THEN 1
    ELSE IF b \in 194..223 THEN 2
    ELSE IF b \in 224..239 THEN 3
    ELSE IF b \in 240..244 THEN 4
    ELSE 0

\* The second byte's range is narrowed after E0, ED, F0 and F4 (no overlong
\* forms, no surrogates, nothing above U+10FFFF).
SecondByteOk(lead, b) ==
    IF lead = 224 THEN b \in 160..191
    ELSE IF lead = 237 THEN b \in 128..159
    ELSE IF lead = 240 THEN b \in 144..191
    ELSE IF lead = 244 THEN b \in 128..143
    ELSE b \in 128..191

\* A well-formed character starts at i and the next one starts right after it.
Utf8CharAt(s, i) ==
    LET w == Utf8Width(s[i]) IN
    /\ w > 0
    /\ i + w - 1 <= Len(s)
    /\ \A k \in 1..(w - 1) : IsContinuation(s[i + k])
    /\ (w > 1 => SecondByteOk(s[i], s[i + 1]))
    /\ (i + w <= Len(s) => ~IsContinuation(s[i + w]))

Utf8Valid(s) ==
    /\ (Len(s) > 0 => ~IsContinuation(s[1]))
    /\ \A i \in 1..Len(s) : IsContinuation(s[i]) \/ Utf8CharAt(s, i)

from_utf8(bytes) ==
    IF Utf8Valid(bytes) THEN [ok |-> TRUE, text |-> bytes]
    ELSE [ok |-> FALSE, text |-> <<>>]

\* str::contains with a string pattern.
contains(s, pat) ==
    \E i \in 1..(Len(s) - Len(pat) + 1) :
        \A k \in 1..Len(pat) : s[i + k - 1] = pat[k]

\* str::chars: the code points of a valid UTF-8 text.
CodePoint(s, i, w) ==
    IF w = 1 THEN s[i]
    ELSE IF w = 2 THEN (s[i] - 192) * 64 + (s[i + 1] - 128)
    ELSE IF w = 3 THEN (s[i] - 224) * 4096 + (s[i + 1] - 128) * 64 + (s[i + 2] - 128)
    ELSE (s[i] - 240) * 262144 + (s[i + 1] - 128) * 4096
         + (s[i + 2] - 128) * 64 + (s[i + 3] - 128)

RECURSIVE CharsFrom(_, _)
CharsFrom(s, i) ==
    IF i > Len(s) THEN <<>>
    ELSE LET w == Utf8Width(s[i]) IN <<CodePoint(s, i, w)>> \o CharsFrom(s, i + w)

chars(s) == CharsFrom(s, 1)

(***************************************************************************)
(* Text operations of the standard library, on sequences of code points.   *)
(***************************************************************************)
\* char::is_whitespace: the code points with the White_Space property.
is_whitespace(c) ==
    \/ c \in 9..13
    \/ c \in {32, 133, 160, 5760, 8232, 8233, 8239, 8287, 12288}
    \/ c \in 8192..8202

\* Index of the first char that is not whitespace; Len(s) + 1 when there is none.
FirstNonWhitespace(s) ==
    IF \E i \in 1..Len(s) : ~is_whitespace(s[i])
    THEN CHOOSE i \in 1..Len(s) :
             ~is_whitespace(s[i]) /\ \A j \in 1..(i - 1) : is_whitespace(s[j])
    ELSE Len(s) + 1

\* Index of the last char that is not whitespace; 0 when there is none.
LastNonWhitespace(s) ==
    IF \E i \in 1..Len(s) : ~is_whitespace(s[i])
    THEN CHOOSE i \in 1..Len(s) :
             ~is_whitespace(s[i]) /\ \A j \in (i + 1)..Len(s) : is_whitespace(s[j])
    ELSE 0

trim_left(s) == SubSeq(s, FirstNonWhitespace(s), Len(s))

\* Only the whitespace at the end is taken off.
trim_end_only(s) == SubSeq(s, 1, LastNonWhitespace(s))

trim(s) == SubSeq(s, FirstNonWhitespace(s), LastNonWhitespace(s))

\* str::split_whitespace: the maximal runs of non-whitespace chars, in order.
RECURSIVE split_whitespace(_)
split_whitespace(s) ==
    LET t == trim_left(s) IN
    IF t = <<>> THEN <<>>
    ELSE LET n == IF \E i \in 1..Len(t) : is_whitespace(t[i])
                  THEN (CHOOSE i \in 1..Len(t) :
                            is_whitespace(t[i])
                            /\ \A j \in 1..(i - 1) : ~is_whitespace(t[j])) - 1
                  ELSE Len(t)
         IN <<SubSeq(t, 1, n)>> \o split_whitespace(SubSeq(t, n + 1, Len(t)))

\* str::split with a one-char pattern: the pieces between the occurrences of c
\* (one piece, the whole text, when c does not occur).
RECURSIVE split(_, _)
split(s, c) ==
    IF \E i \in 1..Len(s) : s[i] = c
    THEN LET i == CHOOSE i \in 1..Len(s) :
                      s[i] = c /\ \A j \in 1..(i - 1) : s[j] # c
         IN <<SubSeq(s, 1, i - 1)>> \o split(SubSeq(s, i + 1, Len(s)), c)
    ELSE <<s>>

\* str::lines: split at "\n", no empty piece after a final "\n", and a "\r"
\* that ends a line is dropped with it.
StripCR(line) ==
    IF Len(line) > 0 /\ line[Len(line)] = CR
    THEN SubSeq(line, 1, Len(line) - 1)
    ELSE line

lines(s) ==
    LET parts == split(s, LF)
        kept == IF parts[Len(parts)] = <<>>
                THEN SubSeq(parts, 1, Len(parts) - 1)
                ELSE parts
    IN [i \in 1..Len(kept) |-> StripCR(kept[i])]

\* char::to_lowercase on the ASCII and Latin-1 letters; the other code points
\* the model feeds it have no lowercase form of their own.
LowerChar(c) ==
    IF c \in 65..90 THEN c + 32
    ELSE IF c \in 192..222 /\ c # 215 THEN c + 32
    ELSE c

to_lowercase_verbatim(s) == s

to_lowercase(s) == [i \in 1..Len(s) |-> LowerChar(s[i])]

(***************************************************************************)
(* RequestParser::parse_version                                            *)
(***************************************************************************)
InvalidFormat(n) == [kind |-> "InvalidFormat", line |-> n]

InvalidHttpVersion == [kind |-> "InvalidHttpVersion"]

\* The value of a run of decimal digits, accumulated left to right as the
\* checked multiply-and-add does; once past U8_MAX it is out of range for good.
RECURSIVE DecimalValue(_)
DecimalValue(digits) ==
    IF digits = <<>> THEN 0
    ELSE LET acc == DecimalValue(SubSeq(digits, 1, Len(digits) - 1)) IN
         IF acc > U8_MAX THEN acc
         ELSE acc * 10 + (digits[Len(digits)] - 48)

\* The same accumulation with wrapping arithmetic in place of the checked one.
RECURSIVE WrappingValue(_)
WrappingValue(digits) ==
    IF digits = <<>> THEN 0
    ELSE (WrappingValue(SubSeq(digits, 1, Len(digits) - 1)) * 10
          + (digits[Len(digits)] - 48)) % (U8_MAX + 1)

from_str_radix_wrapping(src) ==
    LET digits == IF src # <<>> /\ src[1] = PLUS THEN Tail(src) ELSE src IN
    IF digits = <<>> \/ \E i \in 1..Len(digits) : digits[i] \notin 48..57
    THEN [ok |-> FALSE, value |-> 0]
    ELSE [ok |-> TRUE, value |-> WrappingValue(digits)]

\* u8::from_str_radix(src, 10): an optional '+', then one or more ASCII
\* digits whose value fits a u8.
from_str_radix(src) ==
    LET digits == IF src # <<>> /\ src[1] = PLUS THEN Tail(src) ELSE src IN
    IF digits = <<>> \/ \E i \in 1..Len(digits) : digits[i] \notin 48..57
    THEN [ok |-> FALSE, value |-> 0]
    ELSE IF DecimalValue(digits) > U8_MAX
    THEN [ok |-> FALSE, value |-> 0]
    ELSE [ok |-> TRUE, value |-> DecimalValue(digits)]

parse_version(text) ==
    LET segments == split(text, SLASH) IN
    IF Len(segments) < 2 THEN InvalidHttpVersion
    ELSE LET digits == split(segments[2], DOT)
             major == from_str_radix(digits[1])
         IN IF ~major.ok THEN InvalidHttpVersion
            ELSE IF Len(digits) < 2 THEN InvalidHttpVersion
            ELSE LET minor == from_str_radix(digits[2]) IN
                 IF ~minor.ok THEN InvalidHttpVersion
                 ELSE [kind |-> "Ok",
                       version |-> [major |-> major.value, minor |-> minor.value]]

(***************************************************************************)
(* RequestParser::parse                                                    *)
(***************************************************************************)
initial_line_single_space(line) == split(line, 32)

\* The initial line's tokens.
initial_line_tokens(line) == split_whitespace(line)

\* An insert that leaves a key it finds with the value it had.
insert_keeping_first(headers, name, value) ==
    [k \in (DOMAIN headers) \cup {name} |->
        IF k \in DOMAIN headers THEN headers[k] ELSE value]

\* HashMap::insert: the value replaces the one the key had.
insert(headers, name, value) ==
    [k \in (DOMAIN headers) \cup {name} |-> IF k = name THEN value ELSE headers[k]]

\* parse_headers when a line without ':' is passed over.
RECURSIVE parse_headers_skipping(_, _, _)
parse_headers_skipping(header_lines, i, headers) ==
    IF i > Len(header_lines) THEN [kind |-> "Ok", headers |-> headers]
    ELSE LET header_parts == split(header_lines[i], COLON) IN
         IF Len(header_lines[i]) = 0 \/ Len(header_parts) < 2
         THEN parse_headers_skipping(header_lines, i + 1, headers)
         ELSE parse_headers_skipping(header_lines, i + 1,
                  insert(headers, to_lowercase(trim(header_parts[1])),
                         trim_left(header_parts[2])))

\* The loop over the lines after the initial line; header_lines[i] is the
\* line enumerate() numbers i - 1.
RECURSIVE parse_headers(_, _, _)
parse_headers(header_lines, i, headers) ==
    IF i > Len(header_lines) THEN [kind |-> "Ok", headers |-> headers]
    ELSE IF Len(header_lines[i]) = 0
    THEN parse_headers(header_lines, i + 1, headers)
    ELSE LET header_parts == split(header_lines[i], COLON) IN
         IF Len(header_parts) < 2 THEN InvalidFormat((i - 1) + 2)
         ELSE parse_headers(header_lines, i + 1,
                  insert(headers,
                         to_lowercase(trim(header_parts[1])),
                         trim_left(header_parts[2])))

parse(content) ==
    LET all_lines == lines(chars(content)) IN
    IF Len(all_lines) = 0 THEN InvalidFormat(1)
    ELSE LET initial_line == initial_line_tokens(all_lines[1]) IN
         IF Len(initial_line) < 3 THEN InvalidFormat(1)
         ELSE LET version == parse_version(initial_line[3]) IN
              IF version.kind # "Ok" THEN version
              ELSE LET parsed == parse_headers(Tail(all_lines), 1, <<>>) IN
                   IF parsed.kind # "Ok" THEN parsed
                   ELSE [kind |-> "Ok",
                         request |-> [method |-> initial_line[1],
                                      url |-> initial_line[2],
                                      version |-> version.version,
                                      headers |-> parsed.headers]]

(***************************************************************************)
(* RequestParser::read_stream                                              *)
(***************************************************************************)
\* The bytes first..last of the fixed array.
Slice(buf, first, last) ==
    SubSeq(buf, first, Min(last, Len(buf)))
    \o [i \in 1..(last - Max(first - 1, Len(buf))) |-> 0]

\* A read that is handed the whole array: the bytes land at its start.
store_at_start(buf, pos, chunk) ==
    chunk \o SubSeq(buf, Len(chunk) + 1, Len(buf))

\* Read::read into &mut buffer[pos..]: the bytes land at the start of the
\* region handed to the source, the rest of the array keeps what it held.
store(buf, pos, chunk) ==
    Slice(buf, 1, pos) \o chunk \o SubSeq(buf, pos + Len(chunk) + 1, Len(buf))

\* &remaining_buffer[..chars_read]
additional_content(buf, pos, chars_read) == Slice(buf, pos + 1, pos + chars_read)

\* &self.buffer[..self.buffer_position]
complete_buffer(buf, pos) == Slice(buf, 1, pos)

\* Does the text hold an empty line?
has_empty_line(text) ==
    contains(text, <<CR, LF, CR, LF>>) \/ contains(text, <<LF, LF>>)

\* One call whose read stored `chunk`: the fields of self afterwards and
\* the value returned.
read_stream(buf, pos, chunk) ==
    LET chars_read == Len(chunk)
        stored == store(buf, pos, chunk)
        position == pos + chars_read
        added == from_utf8(additional_content(stored, pos, chars_read))
        after(res) == [buffer |-> stored, buffer_position |-> position, result |-> res]
    IN IF ~added.ok THEN after([kind |-> "Uft8Error"])
       ELSE IF has_empty_line(added.text)
       THEN LET whole == from_utf8(complete_buffer(stored, position)) IN
            IF ~whole.ok THEN after([kind |-> "Uft8Error"])
            ELSE LET parsed == parse(whole.text) IN
                 IF parsed.kind # "Ok" THEN after(parsed)
                 ELSE after([kind |-> "Done", request |-> parsed.request])
       ELSE after([kind |-> "FillingBuffer"])

(***************************************************************************)
(* The byte sources the accumulator is fed from.                           *)
(***************************************************************************)
\* "GET \t/test/1234  HTTP/1.1\n  Header1 : it\n  Header2:   works  \n\n"
RAW_REQUEST ==
    <<71, 69, 84, 32, 9, 47, 116, 101, 115, 116, 47, 49, 50, 51, 52, 32,
      32, 72, 84, 84, 80, 47, 49, 46, 49, 10, 32, 32, 72, 101, 97, 100,
      101, 114, 49, 32, 58, 32, 105, 116, 10, 32, 32, 72, 101, 97, 100,
      101, 114, 50, 58, 32, 32, 32, 119, 111, 114, 107, 115, 32, 32, 10,
      10>>

\* "GET / HTTP/1.1\r\nA: b\r\n\r\n"
CRLF_REQUEST ==
    <<71, 69, 84, 32, 47, 32, 72, 84, 84, 80, 47, 49, 46, 49, 13, 10, 65,
      58, 32, 98, 13, 10, 13, 10>>

\* "GET /e-acute HTTP/1.1\nA: b\n\n"
UTF8_REQUEST ==
    <<71, 69, 84, 32, 47, 195, 169, 32, 72, 84, 84, 80, 47, 49, 46, 49, 10,
      65, 58, 32, 98, 10, 10>>

\* "GET / HTTP/1.0\n\nbody"
BODY_REQUEST ==
    <<71, 69, 84, 32, 47, 32, 72, 84, 84, 80, 47, 49, 46, 48, 10, 10, 98,
      111, 100, 121>>

\* "GET /\xff HTTP/1.1\n\n"
BAD_UTF8_REQUEST ==
    <<71, 69, 84, 32, 47, 255, 32, 72, 84, 84, 80, 47, 49, 46, 49, 10, 10>>

\* A source that never sends an empty line: more bytes than the buffer holds.
ENDLESS_REQUEST == SubSeq([i \in 1..(BUFFER_SIZE + 1) |-> 97], 1, BUFFER_SIZE + 1)

Heads == {RAW_REQUEST, CRLF_REQUEST, UTF8_REQUEST, BODY_REQUEST, BAD_UTF8_REQUEST}

\* A source hands its bytes over in pieces of any size (short_reads), or has
\* so much ready that every read fills the region it is given.
Streams ==
    {[data |-> d, index |-> 0, short_reads |-> TRUE] : d \in Heads}
    \cup {[data |-> ENDLESS_REQUEST, index |-> 0, short_reads |-> FALSE]}

\* The byte counts one read may report when `available` bytes can be moved:
\* 0 at the end of the stream or into an empty region, otherwise everything
\* that is there or, from a source that reads short, up to MaxRead bytes.
ReadSizes(available, short_reads) ==
    IF available = 0 THEN {0}
    ELSE IF short_reads THEN (1..Min(available, MaxRead)) \cup {available}
    ELSE {available}

NoCall == [fn |-> "none"]

\* A region that is the whole array, whatever has been stored.
whole_buffer_len(pos) == BUFFER_SIZE

\* The length of &mut self.buffer[self.buffer_position..], the region handed
\* to the source.
remaining_buffer_len(pos) == BUFFER_SIZE - pos

\* RequestParser::new(), and a source that has delivered nothing yet.
Init ==
    /\ buffer = <<>>
    /\ buffer_position = 0
    /\ stream \in Streams
    /\ result = [kind |-> "None"]
    /\ prev_position = 0
    /\ pulls = 0
    /\ call = NoCall

\* read_stream with a read that succeeds.
ReadStream ==
    /\ pulls < MaxPulls
    /\ \E n \in ReadSizes(Min(Len(stream.data) - stream.index,
                              remaining_buffer_len(buffer_position)),
                          stream.short_reads) :
          LET chunk == SubSeq(stream.data, stream.index + 1, stream.index + n)
              self == read_stream(buffer, buffer_position, chunk)
          IN /\ buffer' = self.buffer
             /\ buffer_position' = self.buffer_position
             /\ result' = self.result
             /\ stream' = [stream EXCEPT !.index = @ + n]
    /\ prev_position' = buffer_position
    /\ pulls' = pulls + 1
    /\ UNCHANGED call

\* A failed read after which the accumulator starts over.
ReadStreamIOErrorResetting ==
    /\ pulls < MaxPulls
    /\ result' = [kind |-> "IOError"]
    /\ prev_position' = buffer_position
    /\ pulls' = pulls + 1
    /\ buffer' = <<>>
    /\ buffer_position' = 0
    /\ UNCHANGED <<stream, call>>

\* read_stream with a read that fails: the first try! returns the error.
ReadStreamIOError ==
    /\ pulls < MaxPulls
    /\ result' = [kind |-> "IOError"]
    /\ prev_position' = buffer_position
    /\ pulls' = pulls + 1
    /\ UNCHANGED <<buffer, buffer_position, stream, call>>

Next == ReadStream \/ ReadStreamIOError

Spec == Init /\ [][Next]_vars

(***************************************************************************)
(* Direct calls of parse and parse_version, as the unit tests make them.   *)
(***************************************************************************)
\* "GET"
M_GET ==
    <<71, 69, 84>>

\* "BREW"
M_BREW ==
    <<66, 82, 69, 87>>

\* "/"
URL_ROOT ==
    <<47>>

\* "/test/1234"
TEST_URL ==
    <<47, 116, 101, 115, 116, 47, 49, 50, 51, 52>>

\* "HTTP/1.1"
V_11 ==
    <<72, 84, 84, 80, 47, 49, 46, 49>>

\* "HTTP/2.0"
V_20 ==
    <<72, 84, 84, 80, 47, 50, 46, 48>>

\* "HTTP_1.0"
V_BAD ==
    <<72, 84, 84, 80, 95, 49, 46, 48>>

\* "GET /test"
TWO_TOKENS ==
    <<71, 69, 84, 32, 47, 116, 101, 115, 116>>

\* "GET / HTTP/1.1 extra"
FOUR_TOKENS ==
    <<71, 69, 84, 32, 47, 32, 72, 84, 84, 80, 47, 49, 46, 49, 32, 101, 120,
      116, 114, 97>>

\* "Header1: x"
H_HEADER1 ==
    <<72, 101, 97, 100, 101, 114, 49, 58, 32, 120>>

\* "HEADER1: y"
H_UPPER1 ==
    <<72, 69, 65, 68, 69, 82, 49, 58, 32, 121>>

\* "  Header2:   works  "
H_INDENTED ==
    <<32, 32, 72, 101, 97, 100, 101, 114, 50, 58, 32, 32, 32, 119, 111,
      114, 107, 115, 32, 32>>

\* "Header2 : the"
H_HEADER2 ==
    <<72, 101, 97, 100, 101, 114, 50, 32, 58, 32, 116, 104, 101>>

\* "\tfox jumped"
H_CONTINUATION ==
    <<9, 102, 111, 120, 32, 106, 117, 109, 112, 101, 100>>

\* "Host: localhost:8080"
H_HOST ==
    <<72, 111, 115, 116, 58, 32, 108, 111, 99, 97, 108, 104, 111, 115, 116,
      58, 56, 48, 56, 48>>

\* "broken"
H_NO_COLON ==
    <<98, 114, 111, 107, 101, 110>>

\* "Late: z"
TRAILING ==
    <<76, 97, 116, 101, 58, 32, 122>>

\* "  Header1 : it"
H_INDENTED1 ==
    <<32, 32, 72, 101, 97, 100, 101, 114, 49, 32, 58, 32, 105, 116>>

\* The two header lines of RAW_REQUEST.
RAW_BLOCK == <<H_INDENTED1, H_INDENTED>>

Methods == {M_GET, M_BREW}

Urls == {URL_ROOT, TEST_URL}

\* The whitespace before the url and before the version.
Gaps == {<<<<32>>, <<32>>>>, <<<<32, 9>>, <<32, 32>>>>}

InitialLines ==
    {m \o g[1] \o u \o g[2] \o v : m \in Methods, u \in Urls, g \in Gaps,
                                   v \in {V_11, V_20, V_BAD}}
    \cup {TWO_TOKENS, FOUR_TOKENS, <<>>}

HeaderLines ==
    {H_HEADER1, H_UPPER1, H_INDENTED, H_HEADER2, H_CONTINUATION, H_HOST, H_NO_COLON}

\* The header blocks of up to n lines.
RECURSIVE HeaderBlocks(_)
HeaderBlocks(n) ==
    IF n = 0 THEN {<<>>}
    ELSE HeaderBlocks(n - 1)
         \cup {Append(b, h) : b \in HeaderBlocks(n - 1), h \in HeaderLines}

Eols == {<<LF>>, <<CR, LF>>}

RECURSIVE Join(_, _)
Join(ls, eol) == IF ls = <<>> THEN <<>> ELSE ls[1] \o eol \o Join(Tail(ls), eol)

\* A head: the initial line, the header lines, the empty line, and what may
\* follow it.
HeadText(initial, block, eol, trailing) ==
    Join(<<initial>> \o block, eol) \o eol \o trailing

\* The calls of parse: the head's parts and the text made of them.
ParseCalls ==
    {[fn |-> "parse", line |-> i, block |-> b, eol |-> e, trailing |-> t,
      input |-> HeadText(i, b, e, t), output |-> [kind |-> "None"]] :
        i \in InitialLines, b \in HeaderBlocks(MaxHeaderLines) \cup {RAW_BLOCK},
        e \in Eols, t \in {<<>>, TRAILING}}

\* "HTTP"
P_HTTP ==
    <<72, 84, 84, 80>>

\* "0"
G_0 ==
    <<48>>

\* "1"
G_1 ==
    <<49>>

\* "255"
G_255 ==
    <<50, 53, 53>>

\* "256"
G_256 ==
    <<50, 53, 54>>

\* "x"
G_X ==
    <<120>>

\* "+1"
G_PLUS1 ==
    <<43, 49>>

\* "1x"
G_1X ==
    <<49, 120>>

\* "01"
G_01 ==
    <<48, 49>>

Groups == {<<>>, G_0, G_1, G_255, G_256, G_X, G_PLUS1, G_1X, G_01}

MaxGroups == 3

\* The sequences of up to n groups.
RECURSIVE GroupSeqs(_)
GroupSeqs(n) ==
    IF n = 0 THEN {<<>>}
    ELSE GroupSeqs(n - 1)
         \cup {Append(gs, g) : gs \in GroupSeqs(n - 1), g \in Groups}

RECURSIVE JoinDots(_)
JoinDots(gs) ==
    IF Len(gs) = 1 THEN gs[1]
    ELSE gs[1] \o <<DOT>> \o JoinDots(Tail(gs))

\* The calls of parse_version: a prefix, '/' or '_', and groups joined by '.'.
VersionCalls ==
    {[fn |-> "parse_version", prefix |-> p, sep |-> sep, groups |-> gs,
      input |-> p \o <<sep>> \o JoinDots(gs), output |-> [kind |-> "None"]] :
        p \in {P_HTTP, <<>>}, sep \in {SLASH, 95},
        gs \in GroupSeqs(MaxGroups) \ {<<>>}}

InitParse ==
    /\ buffer = <<>>
    /\ buffer_position = 0
    /\ stream = [data |-> <<>>, index |-> 0, short_reads |-> TRUE]
    /\ result = [kind |-> "None"]
    /\ prev_position = 0
    /\ pulls = 0
    /\ call \in ParseCalls \cup VersionCalls

CallParse ==
    /\ call.fn = "parse"
    /\ call.output.kind = "None"
    /\ call' = [call EXCEPT !.output = parse(call.input)]
    /\ UNCHANGED <<buffer, buffer_position, stream, result, prev_position, pulls>>

CallParseVersion ==
    /\ call.fn = "parse_version"
    /\ call.output.kind = "None"
    /\ call' = [call EXCEPT !.output = parse_version(call.input)]
    /\ UNCHANGED <<buffer, buffer_position, stream, result, prev_position, pulls>>

NextParse == CallParse \/ CallParseVersion

SpecParse == InitParse /\ [][NextParse]_vars

(***************************************************************************)
(* Claims about read_stream, checked under Spec.                           *)
(***************************************************************************)
\* The sources that are one complete, well-formed head and nothing else.
CompleteHeads == {RAW_REQUEST, CRLF_REQUEST, UTF8_REQUEST}

\* Index of the byte that completes the first empty line of a head.
TerminatorEnd(data) ==
    CHOOSE e \in 1..Len(data) :
        has_empty_line(SubSeq(data, 1, e)) /\ ~has_empty_line(SubSeq(data, 1, e - 1))

\* Index of the first byte of that terminator ("\r\n\r\n" or "\n\n").
TerminatorStart(data) ==
    LET e == TerminatorEnd(data) IN
    IF e >= 4 /\ SubSeq(data, e - 3, e) = <<CR, LF, CR, LF>> THEN e - 3 ELSE e - 1

\* The latest call was a read_stream whose read succeeded.
Pulled == pulls > 0 /\ result.kind # "IOError"

\* The bytes the source has delivered so far.
Delivered == SubSeq(stream.data, 1, stream.index)

\* C1: for a complete head whose terminator arrives wholly inside one chunk,
\* every pull that ends before the terminator returns FillingBuffer, and the
\* pull that receives the terminator returns Done with the Request parsed from
\* all the bytes delivered so far (url "/test/1234" for the test's head).
C1_ChunkedHeadParsed ==
    (Pulled /\ stream.data \in CompleteHeads) =>
        /\ (buffer_position < TerminatorStart(stream.data)
                => result.kind = "FillingBuffer")
        /\ (prev_position < TerminatorStart(stream.data)
            /\ buffer_position >= TerminatorEnd(stream.data)
                => /\ result.kind = "Done"
                   /\ result.request = parse(Delivered).request
                   /\ (stream.data = RAW_REQUEST => result.request.url = TEST_URL))

\* C2: whatever the chunk boundaries, also when they cut the terminator, the
\* pull that delivers the last byte of the terminator returns Done (stated
\* for the heads made of ASCII bytes only).
C2_SplitTerminatorDetected ==
    (Pulled /\ stream.data \in CompleteHeads
     /\ (\A i \in 1..Len(stream.data) : stream.data[i] < 128)
     /\ prev_position < TerminatorEnd(stream.data)
     /\ buffer_position >= TerminatorEnd(stream.data))
        => result.kind = "Done"

\* C3: a pull that starts with the buffer full (8192 bytes, no terminator
\* found) fails with BufferOverflow.
C3_BufferOverflowIsFatal ==
    (Pulled /\ prev_position = BUFFER_SIZE) => result.kind = "BufferOverflow"

\* C4: once a pull has returned Done or a parse or encoding error, no later
\* pull on the same accumulator returns FillingBuffer.
C4_DoneAndFailedAreTerminal ==
    [][result.kind \in {"Done", "Uft8Error", "InvalidFormat", "InvalidHttpVersion"}
           => result'.kind # "FillingBuffer"]_vars

\* C5: a pull whose read succeeds fails with Utf8Error exactly when the bytes
\* buffered so far, the new ones included, are not valid UTF-8.
C5_Utf8JudgedOnWholeBuffer ==
    Pulled =>
        (result.kind = "Uft8Error"
            <=> ~Utf8Valid(complete_buffer(buffer, buffer_position)))

(***************************************************************************)
(* Claims about parse and parse_version, checked under SpecParse.          *)
(***************************************************************************)
\* "header1"
K_HEADER1 ==
    <<104, 101, 97, 100, 101, 114, 49>>

\* "header2"
K_HEADER2 ==
    <<104, 101, 97, 100, 101, 114, 50>>

\* "x"
VAL_X ==
    <<120>>

\* "y"
VAL_Y ==
    <<121>>

\* "the fox jumped"
VAL_FOLDED ==
    <<116, 104, 101, 32, 102, 111, 120, 32, 106, 117, 109, 112, 101, 100>>

ParseReturned == call.fn = "parse" /\ call.output.kind # "None"

VersionReturned == call.fn = "parse_version" /\ call.output.kind # "None"

\* The version a well-formed version token of the initial lines stands for.
ExpectedVersion(v) ==
    IF v = V_11 THEN [major |-> 1, minor |-> 1] ELSE [major |-> 2, minor |-> 0]

HasColon(line) == \E k \in 1..Len(line) : line[k] = COLON

\* C6: when the first line is "<M> <U> HTTP/<ma>.<mi>", its tokens separated
\* by runs of whitespace, parse returns method M, url U and version {ma, mi},
\* for a known method and an unknown one alike: the first line never makes
\* parse fail, a failure can only name a header line, and there is none
\* when every header line has its ':'.
C6_InitialLineParsed ==
    ParseReturned =>
        \A m \in Methods, u \in Urls, g \in Gaps, v \in {V_11, V_20} :
            call.line = m \o g[1] \o u \o g[2] \o v =>
                /\ ((\A i \in 1..Len(call.block) : HasColon(call.block[i]))
                        => call.output.kind = "Ok")
                /\ (call.output.kind = "Ok" =>
                        /\ call.output.request.method = m
                        /\ call.output.request.url = u
                        /\ call.output.request.version = ExpectedVersion(v))
                /\ (call.output.kind # "Ok" =>
                        call.output.kind = "InvalidFormat" /\ call.output.line >= 2)

\* An unknown method, a tab in the gap, and the Request that came back.
C6_Witness ==
    /\ ParseReturned
    /\ call.line = M_BREW \o <<32, 9>> \o TEST_URL \o <<32, 32>> \o V_20
    /\ call.output.kind = "Ok"
    /\ call.output.request.method = M_BREW
    /\ call.output.request.url = TEST_URL
    /\ call.output.request.version = [major |-> 2, minor |-> 0]

\* C7: an initial line that has not exactly three whitespace-separated tokens
\* makes parse fail with the initial line's error.
C7_ExactlyThreeTokens ==
    (ParseReturned /\ Len(split_whitespace(call.line)) # 3)
        => call.output = InvalidFormat(1)

\* A group made of decimal digits only, and its value.
IsDecimal(g) == g # <<>> /\ \A i \in 1..Len(g) : g[i] \in 48..57

RECURSIVE Decimal(_)
Decimal(g) ==
    IF g = <<>> THEN 0 ELSE Decimal(SubSeq(g, 1, Len(g) - 1)) * 10 + (g[Len(g)] - 48)

\* A group that is no number at all: neither digits nor a sign and digits.
NonNumeric(g) ==
    /\ ~IsDecimal(g)
    /\ ~(g # <<>> /\ g[1] \in {43, 45} /\ IsDecimal(Tail(g)))

\* C8: parse_version returns {major: a, minor: b} for "HTTP/a.b" with a and b
\* decimal numbers in 0..255; it returns InvalidHttpVersion when there is no
\* '/', when there is one group only, when the major or minor group is no
\* number and when it is a number above 255; and it returns nothing else.
C8_VersionParsed ==
    VersionReturned =>
        LET gs == call.groups
            out == call.output
        IN /\ out.kind \in {"Ok", "InvalidHttpVersion"}
           /\ (out.kind = "Ok" =>
                   /\ DOMAIN out.version = {"major", "minor"}
                   /\ out.version.major \in 0..U8_MAX
                   /\ out.version.minor \in 0..U8_MAX)
           /\ ((/\ call.prefix = P_HTTP
                /\ call.sep = SLASH
                /\ Len(gs) = 2
                /\ \A i \in 1..2 : IsDecimal(gs[i]) /\ Decimal(gs[i]) <= U8_MAX)
                   => out = [kind |-> "Ok",
                             version |-> [major |-> Decimal(gs[1]),
                                          minor |-> Decimal(gs[2])]])
           /\ (call.sep # SLASH => out = InvalidHttpVersion)
           /\ (Len(gs) = 1 => out = InvalidHttpVersion)
           /\ ((Len(gs) >= 2 /\ \E i \in 1..2 : NonNumeric(gs[i]))
                   => out = InvalidHttpVersion)
           /\ ((Len(gs) >= 2
                /\ \E i \in 1..2 : IsDecimal(gs[i]) /\ Decimal(gs[i]) > U8_MAX)
                   => out = InvalidHttpVersion)

\* "HTTP/255.01" returned {255, 1}.
C8_Witness ==
    /\ VersionReturned
    /\ call.prefix = P_HTTP
    /\ call.sep = SLASH
    /\ call.groups = <<G_255, G_01>>
    /\ call.output = [kind |-> "Ok", version |-> [major |-> 255, minor |-> 1]]

\* Two names are the same but for the case of their ASCII letters.
UpperChar(c) == IF c \in 97..122 THEN c - 32 ELSE c

SameIgnoringCase(a, b) ==
    Len(a) = Len(b) /\ \A i \in 1..Len(a) : UpperChar(a[i]) = UpperChar(b[i])

\* C9: in every Request parse returns, no header name holds an uppercase
\* letter, no two names differ by case only, and a header sent as
\* "Header1: x" is found under "header1".
C9_HeaderNamesLowercased ==
    (ParseReturned /\ call.output.kind = "Ok") =>
        LET headers == call.output.request.headers IN
        /\ \A k \in DOMAIN headers : \A i \in 1..Len(k) : k[i] \notin 65..90
        /\ \A k1, k2 \in DOMAIN headers : SameIgnoringCase(k1, k2) => k1 = k2
        /\ ((\E i \in 1..Len(call.block) : call.block[i] = H_HEADER1) =>
                /\ K_HEADER1 \in DOMAIN headers
                /\ headers[K_HEADER1] \in {VAL_X, VAL_Y}
                /\ ((\A i \in 1..Len(call.block) : call.block[i] # H_UPPER1)
                        => headers[K_HEADER1] = VAL_X))

\* "Header1: x" and "HEADER1: y" were sent and one entry, "header1", came back.
C9_Witness ==
    /\ ParseReturned
    /\ call.block = <<H_UPPER1, H_HEADER1>>
    /\ call.trailing = <<>>
    /\ call.output.kind = "Ok"
    /\ DOMAIN call.output.request.headers = {K_HEADER1}
    /\ call.output.request.headers[K_HEADER1] = VAL_X

\* C10: "Header2 : the" followed by "\tfox jumped" gives the one header
\* header2 = "the fox jumped" and no error.
C10_ContinuationFolded ==
    (/\ ParseReturned
     /\ \E m \in Methods, u \in Urls, g \in Gaps, v \in {V_11, V_20} :
            call.line = m \o g[1] \o u \o g[2] \o v
     /\ call.block = <<H_HEADER2, H_CONTINUATION>>
     /\ call.trailing = <<>>)
        => /\ call.output.kind = "Ok"
           /\ DOMAIN call.output.request.headers = {K_HEADER2}
           /\ call.output.request.headers[K_HEADER2] = VAL_FOLDED

(***************************************************************************)
(* Claims about the header block, checked under SpecParse.                 *)
(***************************************************************************)
\* "it"
VAL_IT ==
    <<105, 116>>

\* "works  "
VAL_WORKS ==
    <<119, 111, 114, 107, 115, 32, 32>>

\* The initial lines parse accepts.
GoodInitialLines ==
    {m \o g[1] \o u \o g[2] \o v : m \in Methods, u \in Urls, g \in Gaps,
                                   v \in {V_11, V_20}}

\* The block's line i is the last one that gives a header called as line h.
LastOf(i, same) ==
    /\ call.block[i] \in same
    /\ \A j \in (i + 1)..Len(call.block) : call.block[j] \notin same

\* C11: a header line whose name has whitespace around it, at the start of
\* the line too, is a header: "  Header1 : it" gives header1 = "it" and
\* "  Header2:   works  " gives header2 = "works  ", the name trimmed and
\* lowercased, the value without its leading whitespace and with its
\* trailing spaces; such a line is never the line an error names.
C11_IndentedHeaderLine ==
    ParseReturned =>
        \A i \in 1..Len(call.block) :
            /\ call.block[i] \in {H_INDENTED1, H_INDENTED}
                    => call.output # InvalidFormat(i + 1)
            /\ (call.output.kind = "Ok" /\ call.trailing = <<>>) =>
                    LET headers == call.output.request.headers IN
                    /\ (LastOf(i, {H_INDENTED1})) =>
                            /\ K_HEADER1 \in DOMAIN headers
                            /\ headers[K_HEADER1] = VAL_IT
                    /\ (LastOf(i, {H_INDENTED, H_HEADER2}) /\ call.block[i] = H_INDENTED) =>
                            /\ K_HEADER2 \in DOMAIN headers
                            /\ headers[K_HEADER2] = VAL_WORKS

\* The head of RAW_REQUEST was parsed: header1 = "it", header2 = "works  ".
C11_Witness ==
    /\ ParseReturned
    /\ call.input = RAW_REQUEST
    /\ call.output.kind = "Ok"
    /\ DOMAIN call.output.request.headers = {K_HEADER1, K_HEADER2}
    /\ call.output.request.headers[K_HEADER1] = VAL_IT
    /\ call.output.request.headers[K_HEADER2] = VAL_WORKS

\* "host"
K_HOST ==
    <<104, 111, 115, 116>>

\* "localhost:8080"
VAL_HOST ==
    <<108, 111, 99, 97, 108, 104, 111, 115, 116, 58, 56, 48, 56, 48>>

\* C12: a header line is split at its first ':' only and the value is all
\* that follows it, left-trimmed: "Host: localhost:8080" gives
\* host = "localhost:8080".
C12_SplitAtFirstColon ==
    (/\ ParseReturned
     /\ call.output.kind = "Ok"
     /\ \E i \in 1..Len(call.block) : call.block[i] = H_HOST)
        => /\ K_HOST \in DOMAIN call.output.request.headers
           /\ call.output.request.headers[K_HOST] = VAL_HOST

\* The first line of the block that has no ':'.
FirstWithoutColon ==
    CHOOSE i \in 1..Len(call.block) :
        /\ ~HasColon(call.block[i])
        /\ \A j \in 1..(i - 1) : HasColon(call.block[j])

\* C13: a non-empty header line without ':' makes parse fail, wherever it
\* stands in the block: no Request comes back, and when the initial line is
\* well-formed the error names the first such line by its number in the head.
C13_LineWithoutColonFails ==
    (/\ ParseReturned
     /\ \E i \in 1..Len(call.block) : call.block[i] # <<>> /\ ~HasColon(call.block[i]))
        => /\ call.output.kind # "Ok"
           /\ call.line \in GoodInitialLines
                  => call.output = InvalidFormat(FirstWithoutColon + 1)

\* "broken" stood second, after a good header, and the error names line 3.
C13_Witness ==
    /\ ParseReturned
    /\ call.line \in GoodInitialLines
    /\ call.block = <<H_HEADER1, H_NO_COLON>>
    /\ call.output = InvalidFormat(3)

\* "the"
VAL_THE ==
    <<116, 104, 101>>

\* The header lines of the inputs that are called "header1" and "header2",
\* and the value each one gives.
NamedHeader1 == {H_HEADER1, H_UPPER1, H_INDENTED1}

NamedHeader2 == {H_HEADER2, H_INDENTED}

ValueOf(line) ==
    IF line = H_HEADER1 THEN VAL_X
    ELSE IF line = H_UPPER1 THEN VAL_Y
    ELSE IF line = H_INDENTED1 THEN VAL_IT
    ELSE IF line = H_HEADER2 THEN VAL_THE
    ELSE VAL_WORKS

\* C14: when several header lines have the same lowercased name, the Request
\* has one entry for the name and its value is the last line's.
C14_LastDuplicateWins ==
    (ParseReturned /\ call.output.kind = "Ok") =>
        LET headers == call.output.request.headers IN
        \A i \in 1..Len(call.block) :
            /\ (LastOf(i, NamedHeader1)) =>
                    /\ headers[K_HEADER1] = ValueOf(call.block[i])
                    /\ Cardinality({k \in DOMAIN headers : SameIgnoringCase(k, K_HEADER1)}) = 1
            /\ (LastOf(i, NamedHeader2)) =>
                    /\ headers[K_HEADER2] = ValueOf(call.block[i])
                    /\ Cardinality({k \in DOMAIN headers : SameIgnoringCase(k, K_HEADER2)}) = 1

\* "Header1: x" then "HEADER1: y": the one entry header1 = "y".
C14_Witness ==
    /\ ParseReturned
    /\ call.block = <<H_HEADER1, H_UPPER1>>
    /\ call.trailing = <<>>
    /\ call.output.kind = "Ok"
    /\ DOMAIN call.output.request.headers = {K_HEADER1}
    /\ call.output.request.headers[K_HEADER1] = VAL_Y

(***************************************************************************)
(* Claims about the buffer and buffer_position, checked under Spec.        *)
(***************************************************************************)
\* C15: after any sequence of pulls, the first buffer_position bytes of the
\* buffer are the chunks the reads delivered, in the order they came, and
\* buffer_position is the sum of their lengths: no pull writes over a byte
\* an earlier pull stored.
C15_BufferIsDeliveredPrefix ==
    /\ buffer_position = stream.index
    /\ complete_buffer(buffer, buffer_position) = Delivered

\* A second chunk was stored behind a first one.
C15_Witness ==
    /\ pulls >= 2
    /\ Pulled
    /\ 0 < prev_position
    /\ prev_position < buffer_position
    /\ buffer_position < Len(stream.data)
    /\ complete_buffer(buffer, buffer_position) = Delivered

(***************************************************************************)
(* Claims about the text after the empty line and about the version.       *)
(***************************************************************************)
\* C16: only the text before the first empty line counts: what follows it
\* in the same text adds no header and cannot make parse fail, so parse
\* returns what it returns for the head alone.
C16_TrailingTextIgnored ==
    (ParseReturned /\ call.trailing # <<>>)
        => call.output = parse(HeadText(call.line, call.block, call.eol, <<>>))

\* C17: parse_version accepts a version only when what follows the '/' is
\* exactly two groups of decimal digits: a third group, a sign before a
\* number, or a group that is not all digits gives InvalidHttpVersion.
C17_ExactlyTwoPlainGroups ==
    (/\ VersionReturned
     /\ \/ Len(call.groups) # 2
        \/ \E i \in 1..Len(call.groups) : ~IsDecimal(call.groups[i]))
        => call.output = InvalidHttpVersion

(***************************************************************************)
(* Claims about the bounds of the buffer and about failed pulls, checked   *)
(* under Spec.                                                             *)
(***************************************************************************)
\* C18: buffer_position stays within 0..BUFFER_SIZE when every read reports
\* no more bytes than the region it was given holds, the stored bytes never
\* reach past the array, and a pull on a full buffer reads no byte.
C18_PositionWithinBuffer ==
    /\ buffer_position \in 0..BUFFER_SIZE
    /\ Len(buffer) <= BUFFER_SIZE
    /\ remaining_buffer_len(buffer_position) \in 0..BUFFER_SIZE
    /\ (pulls > 0 /\ prev_position = BUFFER_SIZE) => buffer_position = BUFFER_SIZE

\* The buffer was full and one more pull left it as it was.
C18_Witness ==
    /\ Pulled
    /\ prev_position = BUFFER_SIZE
    /\ buffer_position = BUFFER_SIZE
    /\ stream.index < Len(stream.data)

\* C19: a pull whose read fails returns IOError and leaves buffer_position
\* and the buffered bytes as they were, and the pull after it stores its
\* bytes right behind them.
C19_FailedReadChangesNothing ==
    [][/\ (pulls' = pulls + 1 /\ result'.kind = "IOError") =>
              /\ buffer' = buffer
              /\ buffer_position' = buffer_position
       /\ (pulls' = pulls + 1 /\ result.kind = "IOError" /\ result'.kind # "IOError") =>
              /\ complete_buffer(buffer', buffer_position) =
                     complete_buffer(buffer, buffer_position)
              /\ additional_content(buffer', buffer_position,
                                    buffer_position' - buffer_position) =
                     SubSeq(stream.data, stream.index + 1, stream'.index)]_vars

\* A read failed after bytes had been stored, and they are all still there.
C19_Witness ==
    /\ pulls >= 2
    /\ result.kind = "IOError"
    /\ buffer_position > 0
    /\ buffer_position < Len(stream.data)
    /\ complete_buffer(buffer, buffer_position) = Delivered

\* C20: read_stream returns Done only for a buffer that is valid UTF-8, and
\* once a pull has failed with Utf8Error the bytes it stored stay in the
\* buffer, so the next pull whose chunk holds an empty line fails with
\* Utf8Error too and gives no Request.
C20_Utf8ErrorStays ==
    [][/\ result'.kind = "Done" =>
              Utf8Valid(complete_buffer(buffer', buffer_position'))
       /\ (/\ result.kind = "Uft8Error"
           /\ pulls' = pulls + 1
           /\ result'.kind # "IOError"
           /\ has_empty_line(additional_content(buffer', buffer_position,
                                                buffer_position' - buffer_position)))
              => result'.kind = "Uft8Error"]_vars

====
